---- MODULE Spec2Model ----
(***************************************************************************)
(* Model of src/mailer.py: the Mailer session (connect / login / quit) and *)
(* Mailer.send, the composition of one outgoing MIME message.              *)
(*                                                                         *)
(* Python strings whose content the code inspects ('@' in user, '/' in     *)
(* type, cid.split('@'), ','.join(to)) are sequences of tokens: a token is *)
(* either one of the separator characters or a chunk free of them.         *)
(* An optional value is a sequence of length 0 (None) or 1.                *)
(***************************************************************************)
EXTENDS Integers, Sequences, FiniteSets, TLC

\* ---------------------------------------------------------------- bounds
MaxNames == 2
MaxItems == 2
MaxRich == 1

\* ------------------------------------------------------- string helpers
NoneV == <<>>
Some(x) == <<x>>

Contains(s, c) == \E k \in 1..Len(s) : s[k] = c

IndexOf(s, c) == IF Contains(s, c)
                 THEN CHOOSE k \in 1..Len(s) : s[k] = c /\ \A j \in 1..(k-1) : s[j] # c
                 ELSE 0

RECURSIVE Split(_, _)
Split(s, c) == IF ~Contains(s, c) THEN <<s>>
               ELSE <<SubSeq(s, 1, IndexOf(s, c) - 1)>>
                    \o Split(SubSeq(s, IndexOf(s, c) + 1, Len(s)), c)

Split1(s, c) == IF ~Contains(s, c) THEN <<s>>
                ELSE <<SubSeq(s, 1, IndexOf(s, c) - 1), SubSeq(s, IndexOf(s, c) + 1, Len(s))>>

RECURSIVE Join(_, _)
Join(list, sep) == IF list = <<>> THEN <<>>
                   ELSE IF Len(list) = 1 THEN list[1]
                   ELSE list[1] \o <<sep>> \o Join(Tail(list), sep)

Or(a, b) == IF a # <<>> THEN a ELSE b

DictGet(d, k) == IF k \in DOMAIN d THEN d[k] ELSE <<>>

\* ----------------------------------------------------------- MailAddress
IsAddrSpec(t) == t # <<>> /\ t[Len(t)] # "@" /\ t[1] # "@"

Strip(t) == IF t # <<>> /\ t[Len(t)] = " " THEN SubSeq(t, 1, Len(t) - 1) ELSE t

parseaddr(s) ==
    IF Contains(s, "<")
    THEN LET inner == Split1(Split1(s, "<")[2], ">")[1]
         IN  IF IsAddrSpec(inner)
             THEN [name |-> Strip(Split1(s, "<")[1]), address |-> inner]
             ELSE [name |-> <<>>, address |-> <<>>]
    ELSE IF IsAddrSpec(s)
         THEN [name |-> <<>>, address |-> s]
         ELSE [name |-> <<>>, address |-> <<>>]

MailAddress(o) ==
    IF o.k = "str" THEN parseaddr(o.s)
    ELSE IF o.k = "dict"
    THEN [name    |-> Or(DictGet(o.d, "fullname"), Or(DictGet(o.d, "name"), DictGet(o.d, "id"))),
          address |-> parseaddr(Or(DictGet(o.d, "mail"), Or(DictGet(o.d, "email"),
                                Or(DictGet(o.d, "e-mail"), DictGet(o.d, "mailaddress"))))).address]
    ELSE [name |-> <<>>, address |-> <<>>]

is_valid(ma) == ma.address # <<>>

header_encode(name) == <<"=?utf-8?q?">> \o name \o <<"?=">>

AddrStr(ma) ==
    IF ma.address = <<>> THEN <<>>
    ELSE IF ma.name # <<>> THEN header_encode(ma.name) \o <<" ", "<">> \o ma.address \o <<">">>
    ELSE ma.address

\* ------------------------------------------------------------ input data
Host == <<"mail.example.com">>
User1 == <<"postmaster">>
User2 == <<"bob", "@", "example.com">>
Users == {User1, User2}

Str(t) == [k |-> "str", s |-> t, d |-> <<>>]
Dict(f) == [k |-> "dict", s |-> <<>>, d |-> f]
IntObj == [k |-> "int", s |-> <<>>, d |-> <<>>]

E_A == Str(<<"a", "@", "x.org">>)
E_B == Str(<<"N", " ", "<", "b", "@", "x.org", ">">>)
E_X == Str(<<"c", "@">>)
E_D == Dict([name |-> <<"M">>, mail |-> <<"d", "@", "x.org">>])
E_D0 == Dict([id |-> <<"7">>])

NoneArg == [k |-> "none", v |-> <<>>]
StrArg(t) == [k |-> "str", v |-> <<Str(t)>>]
ListArg(l) == [k |-> "list", v |-> l]
IntArg == [k |-> "int", v |-> <<>>]

\* ----------------------------------------------------------------- state
VARIABLES
    conn,             \* Mailer._conn: "None" or "SMTP"
    user,             \* Mailer._user: optional token string
    authenticated,    \* the user of the last login the server accepted, until quit (optional)
    pc,               \* position of the send call in progress ("idle": none)
    to, cc, bcc,      \* send's parameters / locals of the same name
    from_addr, reply_to, subject,
    plaintext, html, header,
    n_attachments,    \* len(attachments)
    n_inlines,        \* len(inlines)
    i,                \* loop index of the item being resolved
    item,             \* the attachment / inline item of the current iteration (optional)
    plaintext_part, html_part,
    attachment_parts, inline_parts,
    message,          \* the MIME tree built (optional)
    msg_headers,      \* headers set on the root of the message, in order
    recipients,
    exc,              \* exception that ended the send: [type, what], type "none" if none
    warnings,         \* the logger.warning calls of this send, in order
    fetches,          \* urls requested by this send, in order
    reads,            \* files opened by this send, in order
    sendmail_calls    \* arguments of the transport's sendmail calls of this send

session == <<conn, user, authenticated>>
params == <<to, cc, bcc, from_addr, reply_to, subject, plaintext, html, header,
            n_attachments, n_inlines>>
loopv == <<i, item, fetches, reads>>
partv == <<plaintext_part, html_part, attachment_parts, inline_parts>>
outv == <<message, msg_headers, recipients, sendmail_calls>>
vars == <<session, pc, params, loopv, partv, outv, exc, warnings>>

NoExc == [type |-> "none", what |-> "none"]
MailerException(what) == [type |-> "MailerException", what |-> what]
OtherExc(type) == [type |-> type, what |-> "none"]

Raise(e) == pc' = "raised" /\ exc' = e

Blank ==
    /\ to = NoneArg /\ cc = NoneArg /\ bcc = NoneArg
    /\ from_addr = NoneV /\ reply_to = NoneV /\ subject = NoneV
    /\ plaintext = NoneV /\ html = NoneV /\ header = NoneV
    /\ n_attachments = 0 /\ n_inlines = 0
    /\ i = 0 /\ item = NoneV /\ fetches = <<>> /\ reads = <<>>
    /\ plaintext_part = NoneV /\ html_part = NoneV
    /\ attachment_parts = <<>> /\ inline_parts = <<>>
    /\ message = NoneV /\ msg_headers = <<>> /\ recipients = <<>>
    /\ sendmail_calls = <<>>
    /\ exc = NoExc /\ warnings = <<>>

\* The same values, as the next state.
Reset ==
    /\ to' = NoneArg /\ cc' = NoneArg /\ bcc' = NoneArg
    /\ from_addr' = NoneV /\ reply_to' = NoneV /\ subject' = NoneV
    /\ plaintext' = NoneV /\ html' = NoneV /\ header' = NoneV
    /\ n_attachments' = 0 /\ n_inlines' = 0
    /\ i' = 0 /\ item' = NoneV /\ fetches' = <<>> /\ reads' = <<>>
    /\ plaintext_part' = NoneV /\ html_part' = NoneV
    /\ attachment_parts' = <<>> /\ inline_parts' = <<>>
    /\ message' = NoneV /\ msg_headers' = <<>> /\ recipients' = <<>>
    /\ sendmail_calls' = <<>>
    /\ exc' = NoExc /\ warnings' = <<>>

Init ==
    /\ conn = "None" /\ user = NoneV /\ authenticated = NoneV
    /\ pc = "idle"
    /\ Blank

\* ------------------------------------------------------- session operations
Connect ==
    /\ pc = "idle"
    /\ conn' = "SMTP"
    /\ UNCHANGED <<user, authenticated, pc, params, loopv, partv, outv, exc, warnings>>

\* login(user, password); accepted says whether the server takes the credentials.
Login(u, accepted) ==
    /\ pc = "idle"
    /\ conn' = "SMTP"
    /\ user' = Some(u)
    /\ authenticated' = IF accepted THEN Some(u) ELSE authenticated
    /\ UNCHANGED <<pc, params, loopv, partv, outv, exc, warnings>>

Quit ==
    /\ pc = "idle"
    /\ conn = "SMTP"
    /\ conn' = "None"
    /\ user' = NoneV
    /\ authenticated' = NoneV
    /\ UNCHANGED <<pc, params, loopv, partv, outv, exc, warnings>>

\* ----------------------------------------------------------------- send
\* Entry of send: the parameters are bound, the locals initialised.
\* calls is the set of argument tuples the caller may pass.
SendCall(calls) ==
    /\ pc = "idle"
    /\ pc' = "names"
    /\ \E c \in calls :
          /\ to' = c.to /\ cc' = c.cc /\ bcc' = c.bcc
          /\ from_addr' = c.from_addr /\ reply_to' = c.reply_to /\ subject' = c.subject
          /\ plaintext' = c.plaintext /\ html' = c.html /\ header' = c.header
          /\ n_attachments' = c.n_attachments /\ n_inlines' = c.n_inlines
    /\ UNCHANGED <<session, loopv, partv, outv, exc, warnings>>

\* ValidStrs with the "continue" after the warning lost.
RECURSIVE ValidStrsNoSkip(_)
ValidStrsNoSkip(names) ==
    IF names = <<>> THEN <<>>
    ELSE <<AddrStr(MailAddress(names[1]))>> \o ValidStrsNoSkip(Tail(names))

RECURSIVE ValidStrs(_)
ValidStrs(names) ==
    IF names = <<>> THEN <<>>
    ELSE IF is_valid(MailAddress(names[1]))
         THEN <<AddrStr(MailAddress(names[1]))>> \o ValidStrs(Tail(names))
         ELSE ValidStrs(Tail(names))

RECURSIVE SkipWarnings(_)
SkipWarnings(names) ==
    IF names = <<>> THEN <<>>
    ELSE (IF is_valid(MailAddress(names[1])) THEN <<>> ELSE <<"skipped">>)
         \o SkipWarnings(Tail(names))

\* _convert_names: the value returned, or "raise" for a non-collection.
ConvertNamesOk(names) == names.k \in {"none", "str", "list"}

convert_names(names) ==
    IF names.k = "none" THEN NoneArg ELSE ListArg(ValidStrs(names.v))

ConvertWarnings(names) ==
    IF ~ConvertNamesOk(names) THEN <<>>
    ELSE (IF names.k = "str" THEN <<"deprecated">> ELSE <<>>) \o SkipWarnings(names.v)

ConvertNames ==
    /\ pc = "names"
    /\ IF ~ConvertNamesOk(to)
       THEN /\ Raise(MailerException("InvalidNames"))
            /\ UNCHANGED <<to, cc, bcc, warnings>>
       ELSE IF ~ConvertNamesOk(cc)
       THEN /\ Raise(MailerException("InvalidNames"))
            /\ to' = convert_names(to)
            /\ warnings' = warnings \o ConvertWarnings(to)
            /\ UNCHANGED <<cc, bcc>>
       ELSE IF ~ConvertNamesOk(bcc)
       THEN /\ Raise(MailerException("InvalidNames"))
            /\ to' = convert_names(to) /\ cc' = convert_names(cc)
            /\ warnings' = warnings \o ConvertWarnings(to) \o ConvertWarnings(cc)
            /\ UNCHANGED bcc
       ELSE /\ pc' = "from"
            /\ to' = convert_names(to) /\ cc' = convert_names(cc) /\ bcc' = convert_names(bcc)
            /\ warnings' = warnings \o ConvertWarnings(to) \o ConvertWarnings(cc)
                                    \o ConvertWarnings(bcc)
            /\ UNCHANGED exc
    /\ UNCHANGED <<session, from_addr, reply_to, subject, plaintext, html, header,
                   n_attachments, n_inlines, loopv, partv, outv>>

\* Lines 331-348: the sender and the reply-to address.
LoginFrom == IF Contains(user[1], "@") THEN user[1] ELSE user[1] \o <<"@">> \o Host

ResolveFrom ==
    /\ pc = "from"
    /\ IF from_addr = NoneV /\ user = NoneV
       THEN /\ Raise(OtherExc("TypeError"))
            /\ UNCHANGED <<from_addr, reply_to, warnings>>
       ELSE IF from_addr # NoneV /\ ~is_valid(MailAddress(from_addr[1]))
       THEN /\ Raise(MailerException("InvalidFrom"))
            /\ UNCHANGED <<from_addr, reply_to, warnings>>
       ELSE /\ pc' = "text"
            /\ from_addr' = IF from_addr = NoneV THEN Some(LoginFrom)
                            ELSE Some(AddrStr(MailAddress(from_addr[1])))
            /\ reply_to' = IF reply_to # NoneV /\ is_valid(MailAddress(reply_to[1]))
                           THEN Some(AddrStr(MailAddress(reply_to[1])))
                           ELSE NoneV
            /\ warnings' = IF reply_to # NoneV /\ ~is_valid(MailAddress(reply_to[1]))
                           THEN Append(warnings, "reply_to") ELSE warnings
            /\ UNCHANGED exc
    /\ UNCHANGED <<session, to, cc, bcc, subject, plaintext, html, header,
                   n_attachments, n_inlines, loopv, partv, outv>>

\* Lines 350-365: subject and the two text parts.
\* A part: Content-Type maintype/subtype with parameter name, the payload, and
\* the headers added with add_header, in order.
Part(main, sub, name, payload, hdrs) ==
    [maintype |-> main, subtype |-> sub, name |-> name, payload |-> payload, headers |-> hdrs]

MIMEText(text, sub) == Part(<<"text">>, sub, <<>>, text, <<>>)

BuildText ==
    /\ pc = "text"
    /\ pc' = "att_loop"
    /\ subject' = IF subject = NoneV THEN Some(<<>>) ELSE subject
    /\ plaintext_part' = IF plaintext # NoneV THEN Some(MIMEText(plaintext[1], <<"text">>)) ELSE NoneV
    /\ html_part' = IF html # NoneV THEN Some(MIMEText(html[1], <<"html">>)) ELSE NoneV
    /\ UNCHANGED <<session, to, cc, bcc, from_addr, reply_to, plaintext, html, header,
                   n_attachments, n_inlines, loopv, attachment_parts, inline_parts,
                   outv, exc, warnings>>

\* ------------------------------------------------- the world of files and urls
F_PNG == <<"srv", "/", "logo", ".", "png">>
F_RAW == <<"README">>
F_GONE == <<"gone", ".", "gif">>
ExistingFiles == {F_PNG, F_RAW}
isfile(path) == path \in ExistingFiles
FileContent(path) == <<"file:">> \o path

U_JS == <<"https://cdn", "/", "lib", "/", "c", ".", "js", "?", "v=12">>
U_ROOT == <<"https://cdn", "/">>
U_DL == <<"https://cdn", "/", "dl">>
U_404 == <<"https://cdn", "/", "missing">>
U_DOWN == <<"https://down", "/", "x">>

\* urlopen(url): the response, or the error raised.
urlopen(url) ==
    IF url = U_JS THEN [status |-> "ok", ctype |-> <<"application", "/", "javascript">>, filename |-> NoneV]
    ELSE IF url = U_ROOT THEN [status |-> "ok", ctype |-> <<"text", "/", "html">>, filename |-> NoneV]
    ELSE IF url = U_DL THEN [status |-> "ok", ctype |-> <<"image", "/", "gif">>,
                             filename |-> Some(<<"r", ".", "gif">>)]
    ELSE IF url = U_404 THEN [status |-> "HTTPError", ctype |-> <<>>, filename |-> NoneV]
    ELSE [status |-> "URLError", ctype |-> <<>>, filename |-> NoneV]
UrlContent(url) == <<"url:">> \o url

\* urllib.parse.urlparse(url).path
UrlPath(url) ==
    LET rest == SubSeq(url, 2, Len(url))
    IN  IF Contains(rest, "?") THEN SubSeq(rest, 1, IndexOf(rest, "?") - 1) ELSE rest

basename(path) == LET parts == Split(path, "/") IN parts[Len(parts)]

\* mimetypes.guess_type(name)[0] and mimetypes.guess_extension(type)
guess_type(name) ==
    LET ext == Split(name, ".")[Len(Split(name, "."))]
    IN  IF ~Contains(name, ".") THEN NoneV
        ELSE IF ext = <<"png">> THEN Some(<<"image", "/", "png">>)
        ELSE IF ext = <<"gif">> THEN Some(<<"image", "/", "gif">>)
        ELSE IF ext = <<"js">> THEN Some(<<"text", "/", "javascript">>)
        ELSE NoneV

guess_extension(type) ==
    IF type = <<"text", "/", "html">> THEN Some(<<".", "html">>)
    ELSE IF type = <<"image", "/", "png">> THEN Some(<<".", "png">>)
    ELSE IF type = <<"image", "/", "gif">> THEN Some(<<".", "gif">>)
    ELSE NoneV

\* ---------------------------------------------------- attachment / inline items
\* An item as the caller wrote it: a str, bytes, an int, or a dict with the
\* keys listed in keys; the fields of absent keys are empty.
DataBytes(v) == [t |-> "bytes", v |-> v]
DataStr(v) == [t |-> "str", v |-> v]
DataInt == [t |-> "int", v |-> <<>>]
NoData == [t |-> "none", v |-> <<>>]

Item(k, keys, data, file, url, name, type, cid) ==
    [k |-> k, keys |-> keys, data |-> data, file |-> file, url |-> url,
     name |-> name, type |-> type, cid |-> cid]

ItemInt == Item("int", {}, NoData, <<>>, <<>>, <<>>, <<>>, <<>>)
ItemStr(path) == Item("str", {}, NoData, path, <<>>, <<>>, <<>>, <<>>)
ItemBytes(v) == Item("bytes", {}, DataBytes(v), <<>>, <<>>, <<>>, <<>>, <<>>)

Get(d, key, default) == IF key \in d.keys THEN Some(d[key]) ELSE default

\* "main, sub = type.split('/')" when the type is a string holding '/', the
\* default otherwise; ok is FALSE where the unpacking raises ValueError.
\* maxsplit is TRUE for split('/', 1).
SplitType(type, maxsplit) ==
    IF type # NoneV /\ Contains(type[1], "/")
    THEN LET parts == IF maxsplit THEN Split1(type[1], "/") ELSE Split(type[1], "/")
         IN  [ok |-> Len(parts) = 2, maintype |-> parts[1], subtype |-> parts[2]]
    ELSE [ok |-> TRUE, maintype |-> <<"application">>, subtype |-> <<"octet-stream">>]

encode(text) == <<"utf-8:">> \o text

AttachmentDisposition(name) ==
    <<"Content-Disposition", <<"attachment; filename=\"">> \o name \o <<"\"">>>>

Unnamed(idx) == <<"Unnamed attachment ", ToString(idx)>>

Built(part, fetched, read) ==
    [exc |-> NoExc, part |-> Some(part), fetched |-> fetched, read |-> read]
Failed(e, fetched, read) ==
    [exc |-> e, part |-> NoneV, fetched |-> fetched, read |-> read]

\* Lines 372-375: a bare str is a file path, bare bytes are data.
Normalise(a) ==
    IF a.k = "str" THEN Item("dict", {"file"}, NoData, a.file, <<>>, <<>>, <<>>, <<>>)
    ELSE IF a.k = "bytes" THEN Item("dict", {"data"}, a.data, <<>>, <<>>, <<>>, <<>>, <<>>)
    ELSE a

\* AttachmentData handing a text payload on as it is, without encoding it.
AttachmentDataRaw(a, idx) ==
    LET name == Get(a, "name", Some(Unnamed(idx) \o <<".", "dat">>))[1]
        type == IF "type" \in a.keys THEN Some(a.type)
                ELSE IF "name" \in a.keys THEN guess_type(name)
                ELSE NoneV
        st == SplitType(type, FALSE)
    IN  IF ~st.ok THEN Failed(OtherExc("ValueError"), NoneV, NoneV)
        ELSE IF a.data.t \in {"str", "bytes"}
        THEN Built(Part(st.maintype, st.subtype, name, a.data.v, <<AttachmentDisposition(name)>>),
                   NoneV, NoneV)
        ELSE Failed(MailerException("InvalidContentType"), NoneV, NoneV)

\* Lines 380-406
AttachmentData(a, idx) ==
    LET name == Get(a, "name", Some(Unnamed(idx) \o <<".", "dat">>))[1]
        type == IF "type" \in a.keys THEN Some(a.type)
                ELSE IF "name" \in a.keys THEN guess_type(name)
                ELSE NoneV
        st == SplitType(type, FALSE)
        payload == IF a.data.t = "str" THEN encode(a.data.v) ELSE a.data.v
    IN  IF ~st.ok THEN Failed(OtherExc("ValueError"), NoneV, NoneV)
        ELSE IF a.data.t \in {"str", "bytes"}
        THEN Built(Part(st.maintype, st.subtype, name, payload, <<AttachmentDisposition(name)>>),
                   NoneV, NoneV)
        ELSE Failed(MailerException("InvalidContentType"), NoneV, NoneV)

\* Lines 408-427
AttachmentFile(a, idx) ==
    LET type == Get(a, "type", guess_type(a.file))
        st == SplitType(type, FALSE)
        name == Get(a, "name", Some(basename(a.file)))[1]
    IN  IF ~isfile(a.file) THEN Failed(MailerException("FileNotFound"), NoneV, NoneV)
        ELSE IF ~st.ok THEN Failed(OtherExc("ValueError"), NoneV, NoneV)
        ELSE Built(Part(st.maintype, st.subtype, name, FileContent(a.file),
                        <<AttachmentDisposition(name)>>),
                   NoneV, Some(a.file))

\* AttachmentUrl guessing the type from the name before it falls back on the
\* type the response declares.
AttachmentUrlGuessFirst(a, idx) ==
    LET response == urlopen(a.url)
        given == Get(a, "name", response.filename)
        named == IF given = NoneV THEN basename(UrlPath(a.url)) ELSE given[1]
        type == Get(a, "type", IF guess_type(named) # NoneV THEN guess_type(named)
                               ELSE Some(response.ctype))
        st == SplitType(type, FALSE)
        ext == guess_extension(st.maintype \o <<"/">> \o st.subtype)
        name == IF named = <<>>
                THEN Unnamed(idx) \o (IF ext = NoneV THEN <<".", "dat">> ELSE ext[1])
                ELSE named
    IN  IF response.status = "HTTPError"
        THEN Failed(MailerException("DownloadError"), Some(a.url), NoneV)
        ELSE IF response.status = "URLError"
        THEN Failed(OtherExc("URLError"), Some(a.url), NoneV)
        ELSE IF ~st.ok THEN Failed(OtherExc("ValueError"), Some(a.url), NoneV)
        ELSE Built(Part(st.maintype, st.subtype, name, UrlContent(a.url),
                        <<AttachmentDisposition(name)>>),
                   Some(a.url), NoneV)

\* Lines 429-459
AttachmentUrl(a, idx) ==
    LET response == urlopen(a.url)
        type == Get(a, "type", Some(response.ctype))
        st == SplitType(type, FALSE)
        given == Get(a, "name", response.filename)
        named == IF given = NoneV THEN basename(UrlPath(a.url)) ELSE given[1]
        ext == guess_extension(st.maintype \o <<"/">> \o st.subtype)
        name == IF named = <<>>
                THEN Unnamed(idx) \o (IF ext = NoneV THEN <<".", "dat">> ELSE ext[1])
                ELSE named
    IN  IF response.status = "HTTPError"
        THEN Failed(MailerException("DownloadError"), Some(a.url), NoneV)
        ELSE IF response.status = "URLError"
        THEN Failed(OtherExc("URLError"), Some(a.url), NoneV)
        ELSE IF ~st.ok THEN Failed(OtherExc("ValueError"), Some(a.url), NoneV)
        ELSE Built(Part(st.maintype, st.subtype, name, UrlContent(a.url),
                        <<AttachmentDisposition(name)>>),
                   Some(a.url), NoneV)

\* resolve_attachment looking for the keys in the order 'url', 'file', 'data'.
resolve_attachment_url_first(raw, idx) ==
    LET a == Normalise(raw)
    IN  IF a.k # "dict" THEN Failed(MailerException("InvalidContentType"), NoneV, NoneV)
        ELSE IF "url" \in a.keys THEN AttachmentUrl(a, idx)
        ELSE IF "file" \in a.keys THEN AttachmentFile(a, idx)
        ELSE IF "data" \in a.keys THEN AttachmentData(a, idx)
        ELSE Failed(MailerException("NoSource"), NoneV, NoneV)

\* Lines 371-464, one iteration: the part built or the exception raised, with
\* the url requested and the file read on the way.
resolve_attachment(raw, idx) ==
    LET a == Normalise(raw)
    IN  IF a.k # "dict" THEN Failed(MailerException("InvalidContentType"), NoneV, NoneV)
        ELSE IF "data" \in a.keys THEN AttachmentData(a, idx)
        ELSE IF "file" \in a.keys THEN AttachmentFile(a, idx)
        ELSE IF "url" \in a.keys THEN AttachmentUrl(a, idx)
        ELSE Failed(MailerException("NoSource"), NoneV, NoneV)

\* InlineHeaders without the Content-ID header.
InlineHeadersNoId(cid) == << <<"Content-Disposition", <<"inline">>>> >>

InlineHeaders(cid) ==
    << <<"Content-ID", <<"<">> \o cid \o <<">">>>>, <<"Content-Disposition", <<"inline">>>> >>

\* Lines 481-498
InlineData(a, i_name) ==
    LET i_type == Get(a, "type", guess_type(i_name))
        st == SplitType(i_type, FALSE)
    IN  IF a.data.t # "bytes" THEN Failed(MailerException("InvalidContentType"), NoneV, NoneV)
        ELSE IF ~st.ok THEN Failed(OtherExc("ValueError"), NoneV, NoneV)
        ELSE Built(Part(st.maintype, st.subtype, i_name, a.data.v, InlineHeaders(a.cid)),
                   NoneV, NoneV)

\* Lines 500-517
InlineFile(a, i_name) ==
    LET got == Get(a, "type", guess_type(a.file))
        i_type == IF got = NoneV \/ got = Some(<<>>) THEN guess_type(i_name) ELSE got
        st == SplitType(i_type, TRUE)
    IN  IF ~isfile(a.file) THEN Failed(MailerException("FileNotFound"), NoneV, NoneV)
        ELSE Built(Part(st.maintype, st.subtype, i_name, FileContent(a.file), InlineHeaders(a.cid)),
                   NoneV, Some(a.file))

\* InlineUrl keeping the name taken from the cid whenever there is one,
\* before the names the response offers.
InlineUrlCidFirst(a, i_name) ==
    LET response == urlopen(a.url)
        i_type == Get(a, "type", Some(response.ctype))
        st == SplitType(i_type, FALSE)
        req_name == IF response.filename = NoneV THEN basename(UrlPath(a.url))
                    ELSE response.filename[1]
        name == IF i_name # <<>> THEN i_name ELSE req_name
    IN  IF response.status = "HTTPError"
        THEN Failed(MailerException("DownloadError"), Some(a.url), NoneV)
        ELSE IF response.status = "URLError"
        THEN Failed(OtherExc("URLError"), Some(a.url), NoneV)
        ELSE IF ~st.ok THEN Failed(OtherExc("ValueError"), Some(a.url), NoneV)
        ELSE Built(Part(st.maintype, st.subtype, name, UrlContent(a.url), InlineHeaders(a.cid)),
                   Some(a.url), NoneV)

\* Lines 519-546
InlineUrl(a, i_name) ==
    LET response == urlopen(a.url)
        i_type == Get(a, "type", Some(response.ctype))
        st == SplitType(i_type, FALSE)
        req_name == IF response.filename = NoneV THEN basename(UrlPath(a.url))
                    ELSE response.filename[1]
        name == IF req_name # <<>> THEN req_name ELSE i_name
    IN  IF response.status = "HTTPError"
        THEN Failed(MailerException("DownloadError"), Some(a.url), NoneV)
        ELSE IF response.status = "URLError"
        THEN Failed(OtherExc("URLError"), Some(a.url), NoneV)
        ELSE IF ~st.ok THEN Failed(OtherExc("ValueError"), Some(a.url), NoneV)
        ELSE Built(Part(st.maintype, st.subtype, name, UrlContent(a.url), InlineHeaders(a.cid)),
                   Some(a.url), NoneV)

\* Lines 470-554, one iteration.
resolve_inline(a, idx) ==
    LET i_name == Split(a.cid, "@")[1]
    IN  IF a.k \in {"int", "bytes"} THEN Failed(OtherExc("TypeError"), NoneV, NoneV)
        ELSE IF a.k = "str" \/ "cid" \notin a.keys
        THEN Failed(MailerException("InvalidContentId"), NoneV, NoneV)
        ELSE IF ~Contains(a.cid, "@")
        THEN Failed(MailerException("InvalidContentId"), NoneV, NoneV)
        ELSE IF "data" \in a.keys THEN InlineData(a, i_name)
        ELSE IF "file" \in a.keys THEN InlineFile(a, i_name)
        ELSE IF "url" \in a.keys THEN InlineUrl(a, i_name)
        ELSE Failed(MailerException("NoSource"), NoneV, NoneV)

\* Record with a second request for a url whose first request failed.
RecordRetry(r) ==
    /\ fetches' = fetches \o r.fetched \o (IF r.exc # NoExc THEN r.fetched ELSE <<>>)
    /\ reads' = reads \o r.read

\* One iteration of a loop over items: r is what resolving the item gave.
Record(r) ==
    /\ fetches' = fetches \o r.fetched
    /\ reads' = reads \o r.read

AttachmentStep(a) ==
    /\ pc = "att_loop"
    /\ i < n_attachments
    /\ item' = Some(a)
    /\ LET r == resolve_attachment(a, i)
       IN  /\ Record(r)
           /\ IF r.exc = NoExc
              THEN /\ attachment_parts' = Append(attachment_parts, r.part[1])
                   /\ i' = i + 1
                   /\ UNCHANGED <<pc, exc>>
              ELSE /\ Raise(r.exc)
                   /\ UNCHANGED <<attachment_parts, i>>
    /\ UNCHANGED <<session, params, plaintext_part, html_part, inline_parts, outv, warnings>>

AttachmentsDone ==
    /\ pc = "att_loop"
    /\ i = n_attachments
    /\ pc' = "inl_loop"
    /\ i' = 0
    /\ item' = NoneV
    /\ UNCHANGED <<session, params, fetches, reads, partv, outv, exc, warnings>>

InlineStep(a) ==
    /\ pc = "inl_loop"
    /\ i < n_inlines
    /\ item' = Some(a)
    /\ LET r == resolve_inline(a, i)
       IN  /\ Record(r)
           /\ IF r.exc = NoExc
              THEN /\ inline_parts' = Append(inline_parts, r.part[1])
                   /\ i' = i + 1
                   /\ UNCHANGED <<pc, exc>>
              ELSE /\ Raise(r.exc)
                   /\ UNCHANGED <<inline_parts, i>>
    /\ UNCHANGED <<session, params, plaintext_part, html_part, attachment_parts, outv, warnings>>

InlinesDone ==
    /\ pc = "inl_loop"
    /\ i = n_inlines
    /\ pc' = "compose"
    /\ i' = 0
    /\ item' = NoneV
    /\ UNCHANGED <<session, params, fetches, reads, partv, outv, exc, warnings>>

\* ------------------------------------------------------------ the MIME tree
Leaf(p) == [node |-> "leaf", part |-> Some(p), children |-> <<>>]
MIMEMultipart(subtype, children) == [node |-> subtype, part |-> NoneV, children |-> children]

RECURSIVE Leaves(_)
Leaves(parts) == IF parts = <<>> THEN <<>> ELSE <<Leaf(parts[1])>> \o Leaves(Tail(parts))

\* Body with the multipart/alternative branch lost: html wins.
BodyHtmlWins(pt, ht) ==
    IF ht # NoneV THEN Some(Leaf(ht[1]))
    ELSE IF pt # NoneV THEN Some(Leaf(pt[1]))
    ELSE NoneV

\* Lines 556-566
Body(pt, ht) ==
    IF ht # NoneV /\ pt # NoneV THEN Some(MIMEMultipart("alternative", <<Leaf(pt[1]), Leaf(ht[1])>>))
    ELSE IF ht # NoneV THEN Some(Leaf(ht[1]))
    ELSE IF pt # NoneV THEN Some(Leaf(pt[1]))
    ELSE NoneV

\* Lines 569-579, where no exception is raised
Content(body, inls) ==
    IF inls # <<>> THEN Some(MIMEMultipart("related", body \o Leaves(inls)))
    ELSE body

\* Lines 582-589
Message(content, atts) ==
    IF atts # <<>> THEN Some(MIMEMultipart("mixed", content \o Leaves(atts)))
    ELSE content

\* Dangling with the check for a body forgotten.
DanglingUnchecked(body, inls) == FALSE

\* Line 570 under line 569: inline parts without a body.
Dangling(body, inls) == inls # <<>> /\ body = NoneV

Compose ==
    /\ pc = "compose"
    /\ LET body == Body(plaintext_part, html_part)
           content == Content(body, inline_parts)
       IN  IF Dangling(body, inline_parts)
           THEN /\ Raise(MailerException("DanglingInline"))
                /\ UNCHANGED message
           ELSE IF Message(content, attachment_parts) = NoneV
           THEN /\ Raise(MailerException("EmptyMessage"))
                /\ UNCHANGED message
           ELSE /\ message' = Message(content, attachment_parts)
                /\ pc' = "header"
                /\ UNCHANGED exc
    /\ UNCHANGED <<session, params, loopv, partv, msg_headers, recipients, sendmail_calls,
                   warnings>>

\* Headers a MIME object carries when it is created.
OwnHeaders(tree) ==
    IF tree.node = "leaf"
    THEN << <<"Content-Type", tree.part[1].maintype \o <<"/">> \o tree.part[1].subtype>>,
            <<"MIME-Version", <<"1.0">>>> >>
    ELSE << <<"Content-Type", <<"multipart", "/", tree.node>>>>,
            <<"MIME-Version", <<"1.0">>>> >>

\* message[key] = value (email.message.Message.__setitem__): the header is
\* appended; an existing header of that name is kept.
SetItem(hdrs, key, value) == Append(hdrs, <<key, value>>)

RECURSIVE SetItems(_, _)
SetItems(hdrs, pairs) ==
    IF pairs = <<>> THEN hdrs
    ELSE SetItems(SetItem(hdrs, pairs[1][1], pairs[1][2]), Tail(pairs))

ListOf(names) == names.v

\* Lines 595-607: the computed headers, in the order they are set.
Computed ==
    (IF ListOf(to) # <<>> THEN << <<"To", Join(ListOf(to), ",")>> >> ELSE <<>>)
    \o (IF ListOf(cc) # <<>> THEN << <<"Cc", Join(ListOf(cc), ",")>> >> ELSE <<>>)
    \o (IF ListOf(bcc) # <<>> THEN << <<"Bcc", Join(ListOf(bcc), ",")>> >> ELSE <<>>)
    \o (IF reply_to # NoneV /\ reply_to[1] # <<>> THEN << <<"Reply-To", reply_to[1]>> >> ELSE <<>>)
    \o << <<"From", from_addr[1]>>, <<"Subject", subject[1]>> >>

\* Recipients with the blind copies left out of the envelope.
RecipientsNoBcc == ListOf(to) \o ListOf(cc)

Recipients == ListOf(to) \o ListOf(cc) \o ListOf(bcc)

\* NoRecipients with the check lost.
NoRecipientsUnchecked(rcpts) == FALSE

\* Line 613
NoRecipients(rcpts) == rcpts = <<>>

\* Lines 594-614: header assembly and the recipients check.
AssembleHeader ==
    /\ pc = "header"
    /\ msg_headers' = SetItems(SetItems(OwnHeaders(message[1]), Computed),
                               IF header = NoneV THEN <<>> ELSE header[1])
    /\ recipients' = Recipients
    /\ IF NoRecipients(Recipients)
       THEN Raise(MailerException("NoRecipients"))
       ELSE pc' = "sendmail" /\ UNCHANGED exc
    /\ UNCHANGED <<session, params, loopv, partv, message, sendmail_calls, warnings>>

\* Line 616: accepted says whether the transport takes the message.
Sendmail(accepted) ==
    /\ pc = "sendmail"
    /\ IF conn = "None"
       THEN /\ Raise(OtherExc("AttributeError"))
            /\ UNCHANGED sendmail_calls
       ELSE /\ sendmail_calls' = Append(sendmail_calls,
                  [from_addr |-> from_addr[1], to_addrs |-> recipients,
                   msg |-> [headers |-> msg_headers, tree |-> message[1]]])
            /\ IF accepted
               THEN pc' = "returned" /\ UNCHANGED exc
               ELSE Raise(OtherExc("SMTPException"))
    /\ UNCHANGED <<session, params, loopv, partv, message, msg_headers, recipients, warnings>>

\* send is over (returned or raised): its locals are gone.
Return ==
    /\ pc \in {"returned", "raised"}
    /\ pc' = "idle"
    /\ Reset
    /\ UNCHANGED session

\* ------------------------------------------------------------------ inputs
A_BLOB == ItemBytes(<<"blob">>)
I_LOGO == Item("dict", {"cid", "data"}, DataBytes(<<"img">>), <<>>, <<>>, <<>>, <<>>,
               <<"logo", "@", "x.org">>)
I_NOCID == Item("dict", {"data"}, DataBytes(<<"img">>), <<>>, <<>>, <<>>, <<>>, <<>>)

BasicAttachments == {A_BLOB, ItemInt}
BasicInlines == {I_LOGO, I_NOCID}

Texts == {NoneV, Some(<<"hi">>)}
Htmls == {NoneV, Some(<<"<b>hi</b>">>)}

\* The calls of send explored together with the session operations: every
\* combination of body parts and item counts, few recipients.
Calls ==
    [to : {NoneArg, ListArg(<<E_A>>), ListArg(<<E_X>>), IntArg},
     cc : {NoneArg}, bcc : {NoneArg},
     from_addr : {NoneV, Some(E_D), Some(E_X)},
     reply_to : {NoneV}, subject : {NoneV},
     plaintext : Texts, html : Htmls, header : {NoneV},
     n_attachments : 0..MaxItems, n_inlines : 0..MaxItems]

\* The calls explored for the recipient and header handling, on a logged-in
\* session: at most MaxNames entries over to, cc and bcc together.
NameEntries == {E_A, E_B, E_X, E_D0, IntObj}
SeqsUpTo(S, n) == UNION {[1..k -> S] : k \in 0..n}
\* The ways to pass the list l as "to": as it is, as None when it is empty,
\* as a bare str when it is one str.
ToForm(l, form) ==
    IF form = "none" THEN NoneArg
    ELSE IF form = "str" THEN StrArg(l[1].s)
    ELSE ListArg(l)
ToFormFits(l, form) ==
    \/ form = "list"
    \/ form = "none" /\ l = <<>>
    \/ form = "str" /\ Len(l) = 1 /\ l[1].k = "str"
ListOrNone(l) == IF l = <<>> THEN NoneArg ELSE ListArg(l)
Replies == {NoneV, Some(E_B), Some(E_X)}
Headers ==
    {NoneV,
     Some(<< <<"X-Tag", <<"v">>>> >>),
     Some(<< <<"Subject", <<"other">>>> >>),
     Some(<< <<"To", <<"list", "@", "x.org">>>>, <<"Reply-To", <<"r", "@", "x.org">>>> >>)}

NameCall(t, c, b, r, h, na, ni) ==
    [to |-> t, cc |-> c, bcc |-> b, from_addr |-> Some(E_A), reply_to |-> r,
     subject |-> Some(<<"Hello">>), plaintext |-> Some(<<"hi">>), html |-> NoneV,
     header |-> h, n_attachments |-> na, n_inlines |-> ni]

\* w = <<entries, end of to, end of cc, form of to, reply_to, header>>
NameSplits ==
    {w \in SeqsUpTo(NameEntries, MaxNames) \X (0..MaxNames) \X (0..MaxNames)
            \X {"list", "none", "str"} \X Replies \X Headers :
        /\ w[2] <= w[3] /\ w[3] <= Len(w[1])
        /\ ToFormFits(SubSeq(w[1], 1, w[2]), w[4])}

NameCalls ==
    { NameCall(ToForm(SubSeq(w[1], 1, w[2]), w[4]),
               ListOrNone(SubSeq(w[1], w[2] + 1, w[3])),
               ListOrNone(SubSeq(w[1], w[3] + 1, Len(w[1]))), w[5], w[6], 0, 0)
      : w \in NameSplits }
    \cup {NameCall(ListArg(<<E_A>>), NoneArg, NoneArg, NoneV, NoneV, 1, 1)}

InitNames ==
    /\ conn = "SMTP" /\ user = Some(User1) /\ authenticated = Some(User1)
    /\ pc = "idle"
    /\ Blank

NextNames ==
    \/ SendCall(NameCalls)
    \/ ConvertNames
    \/ ResolveFrom
    \/ BuildText
    \/ \E a \in BasicAttachments : AttachmentStep(a)
    \/ AttachmentsDone
    \/ \E a \in BasicInlines : InlineStep(a)
    \/ InlinesDone
    \/ Compose
    \/ AssembleHeader
    \/ \E accepted \in BOOLEAN : Sendmail(accepted)
    \/ Return

SpecNames == InitNames /\ [][NextNames]_vars

\* The calls explored for the resolution of items: at most MaxRich items per
\* send, each drawn from every combination of source, name, type and cid.
Payloads == {DataBytes(<<"blob">>), DataStr(<<"text">>), DataInt}
Paths == {F_PNG, F_RAW, F_GONE}
Urls == {U_JS, U_ROOT, U_DL, U_404, U_DOWN}
ItemNames == {<<"x", ".", "png">>, <<>>}
ItemTypes == {<<"text", "/", "plain">>, <<"foo">>, <<"/", "png">>, <<"a", "/", "b", "/", "c">>, <<>>}
Cids == {<<"logo", "@", "x.org">>, <<"pic", ".", "gif", "@", "x.org">>, <<"logo">>, <<"@", "x.org">>}

\* The dicts with the sources in Sources and any of the keys in Optional.
Dicts(Sources, Optional) ==
    { Item("dict", src \cup opt,
           IF "data" \in src THEN d ELSE NoData,
           IF "file" \in src THEN f ELSE <<>>,
           IF "url" \in src THEN u ELSE <<>>,
           IF "name" \in opt THEN n ELSE <<>>,
           IF "type" \in opt THEN t ELSE <<>>,
           IF "cid" \in opt THEN c ELSE <<>>)
      : src \in Sources, opt \in SUBSET Optional, d \in Payloads, f \in Paths, u \in Urls,
        n \in ItemNames, t \in ItemTypes, c \in Cids }

OneSource == {{"data"}, {"file"}, {"url"}}
SeveralSources == {{}, {"data", "file"}, {"file", "url"}, {"data", "file", "url"}}

RichAttachments ==
    Dicts(OneSource, {"name", "type"})
    \cup {a \in Dicts(SeveralSources, {}) : a.file # F_RAW /\ a.url \in {U_JS, U_404}}
    \cup {ItemStr(f) : f \in Paths} \cup {ItemBytes(<<"blob">>), ItemInt}

RichInlines ==
    Dicts(OneSource, {"type", "cid"})
    \cup {a \in Dicts(SeveralSources, {"cid"}) :
             a.cid = <<"logo", "@", "x.org">> /\ a.file # F_RAW /\ a.url \in {U_JS, U_404}}
    \cup {a \in Dicts({{"url"}}, {"name", "cid"}) : a.keys = {"url", "name", "cid"}}
    \cup {ItemInt}

ItemCalls ==
    { [to |-> ListArg(<<E_A>>), cc |-> NoneArg, bcc |-> NoneArg, from_addr |-> Some(E_A),
       reply_to |-> NoneV, subject |-> NoneV, plaintext |-> Some(<<"hi">>), html |-> NoneV,
       header |-> NoneV, n_attachments |-> x[1], n_inlines |-> x[2]]
      : x \in {y \in (0..MaxRich) \X (0..MaxRich) : y[1] + y[2] <= MaxRich} }

NextItems ==
    \/ SendCall(ItemCalls)
    \/ ConvertNames
    \/ ResolveFrom
    \/ BuildText
    \/ \E a \in RichAttachments : AttachmentStep(a)
    \/ AttachmentsDone
    \/ \E a \in RichInlines : InlineStep(a)
    \/ InlinesDone
    \/ Compose
    \/ AssembleHeader
    \/ \E accepted \in BOOLEAN : Sendmail(accepted)
    \/ Return

SpecItems == InitNames /\ [][NextItems]_vars

\* The calls explored for the order of resolution: up to MaxItems attachments
\* and MaxItems inlines per send, drawn as the loops reach them from data,
\* file and url items that resolve and that fail.
A_URL(u) == Item("dict", {"url"}, NoData, <<>>, u, <<>>, <<>>, <<>>)
I_URL(u) == Item("dict", {"url", "cid"}, NoData, <<>>, u, <<>>, <<>>, <<"logo", "@", "x.org">>)
I_FILE(f) == Item("dict", {"file", "cid"}, NoData, f, <<>>, <<>>, <<>>, <<"logo", "@", "x.org">>)
FlowAttachments ==
    {ItemInt, A_BLOB, ItemStr(F_PNG), ItemStr(F_GONE), A_URL(U_JS), A_URL(U_404), A_URL(U_DOWN)}
FlowInlines == {I_LOGO, I_NOCID, I_URL(U_DL), I_URL(U_404), I_FILE(F_PNG)}

FlowCalls ==
    { [to |-> ListArg(<<E_A>>), cc |-> NoneArg, bcc |-> NoneArg, from_addr |-> Some(E_A),
       reply_to |-> NoneV, subject |-> NoneV, plaintext |-> Some(<<"hi">>), html |-> NoneV,
       header |-> NoneV, n_attachments |-> x[1], n_inlines |-> x[2]]
      : x \in (0..MaxItems) \X (0..MaxItems) }

NextFlow ==
    \/ SendCall(FlowCalls)
    \/ ConvertNames
    \/ ResolveFrom
    \/ BuildText
    \/ \E a \in FlowAttachments : AttachmentStep(a)
    \/ AttachmentsDone
    \/ \E a \in FlowInlines : InlineStep(a)
    \/ InlinesDone
    \/ Compose
    \/ AssembleHeader
    \/ \E accepted \in BOOLEAN : Sendmail(accepted)
    \/ Return

SpecFlow == InitNames /\ [][NextFlow]_vars

Next ==
    \/ Connect
    \/ \E u \in Users, accepted \in BOOLEAN : Login(u, accepted)
    \/ Quit
    \/ SendCall(Calls)
    \/ ConvertNames
    \/ ResolveFrom
    \/ BuildText
    \/ \E a \in BasicAttachments : AttachmentStep(a)
    \/ AttachmentsDone
    \/ \E a \in BasicInlines : InlineStep(a)
    \/ InlinesDone
    \/ Compose
    \/ AssembleHeader
    \/ \E accepted \in BOOLEAN : Sendmail(accepted)
    \/ Return

Spec == Init /\ [][Next]_vars

\* ================================================================ claims
Terminal == pc \in {"returned", "raised"}
HasText == plaintext_part # NoneV
HasHtml == html_part # NoneV
HasInlines == inline_parts # <<>>
HasAttachments == attachment_parts # <<>>

\* The tree the four presence bits call for: body, then content, then message.
TreeBody ==
    IF HasText /\ HasHtml
    THEN <<[node |-> "alternative", part |-> NoneV,
            children |-> <<Leaf(plaintext_part[1]), Leaf(html_part[1])>>]>>
    ELSE IF HasText THEN <<Leaf(plaintext_part[1])>>
    ELSE IF HasHtml THEN <<Leaf(html_part[1])>>
    ELSE <<>>
TreeContent ==
    IF HasInlines
    THEN <<[node |-> "related", part |-> NoneV, children |-> TreeBody \o Leaves(inline_parts)]>>
    ELSE TreeBody
TreeMessage ==
    IF HasAttachments
    THEN <<[node |-> "mixed", part |-> NoneV, children |-> TreeContent \o Leaves(attachment_parts)]>>
    ELSE TreeContent

\* send has run lines 556-592 (and left them with a message or an exception).
Composed ==
    \/ pc \in {"header", "sendmail", "returned"}
    \/ pc = "raised" /\ (message # NoneV \/ exc.what \in {"DanglingInline", "EmptyMessage"})

\* C1 as stated: for all 16 presence combinations the message built is
\* Mixed/Related/Alternative by the three rules, and send fails with
\* EmptyMessage exactly when that message is none.
C1_EveryCombinationBuilds ==
    Composed =>
        /\ message = TreeMessage
        /\ (exc = MailerException("EmptyMessage")) <=> (TreeMessage = NoneV)

\* C1 amended: the same, except that with inline parts present and neither
\* plaintext nor html no tree is built: send fails with DanglingInline.
C1_TreeByPresence ==
    Composed =>
        IF HasInlines /\ ~HasText /\ ~HasHtml
        THEN message = NoneV /\ exc = MailerException("DanglingInline")
        ELSE /\ message = TreeMessage
             /\ (exc = MailerException("EmptyMessage")) <=> (TreeMessage = NoneV)

C1_Witness ==
    /\ pc = "returned"
    /\ message[1].node = "mixed"
    /\ message[1].children[1].node = "related"
    /\ message[1].children[1].children[1].node = "alternative"
    /\ Len(message[1].children[1].children[1].children) = 2

\* C2: sendmail is called at most once per send, only after every
\* composition check has passed, and never in a send that ends with a
\* composition error.
C2_TransportLast ==
    /\ Len(sendmail_calls) <= 1
    /\ sendmail_calls # <<>> =>
          /\ Terminal
          /\ exc.type \in {"none", "SMTPException"}
          /\ from_addr # NoneV
          /\ Len(attachment_parts) = n_attachments
          /\ Len(inline_parts) = n_inlines
          /\ (HasInlines => HasText \/ HasHtml)
          /\ message # NoneV
          /\ recipients # <<>>
          /\ sendmail_calls[1].to_addrs = recipients
    /\ (pc = "raised" /\ exc.type = "MailerException") => sendmail_calls = <<>>

C2_Witness ==
    /\ pc = "returned"
    /\ Len(sendmail_calls) = 1
    /\ n_attachments > 0 /\ n_inlines > 0

\* to, cc and bcc hold the resolved lists.
NamesResolved == pc \notin {"idle", "names"} /\ exc.what # "InvalidNames"
AllListsEmpty == ListOf(to) = <<>> /\ ListOf(cc) = <<>> /\ ListOf(bcc) = <<>>

\* C3 as stated: with the resolved To, Cc and Bcc all empty, send fails with
\* NoRecipients whatever the body and the other headers are, even with no
\* content at all (the sender and every supplied item being resolvable).
C3_AlwaysNoRecipients ==
    (Terminal /\ NamesResolved /\ AllListsEmpty /\ exc.type \in {"none", "MailerException"}
        /\ exc.what # "InvalidFrom"
        /\ Len(attachment_parts) = n_attachments /\ Len(inline_parts) = n_inlines)
    => exc = MailerException("NoRecipients")

\* C3 amended: with the resolved lists all empty send never reaches the
\* transport; it fails with NoRecipients if and only if the earlier steps
\* (sender, items, DanglingInline, EmptyMessage) passed, i.e. a message was
\* built, and with the error of the earlier step otherwise.
C3_NoRecipientsAfterComposition ==
    (Terminal /\ NamesResolved /\ AllListsEmpty) =>
        /\ exc.type # "none"
        /\ sendmail_calls = <<>>
        /\ (message # NoneV) <=> (exc = MailerException("NoRecipients"))
        /\ (from_addr # NoneV /\ n_attachments = 0 /\ n_inlines = 0
              /\ plaintext = NoneV /\ html = NoneV
              /\ exc.type = "MailerException" /\ exc.what # "InvalidFrom")
           => exc = MailerException("EmptyMessage")

C3_Witness ==
    /\ pc = "raised"
    /\ exc = MailerException("NoRecipients")
    /\ AllListsEmpty
    /\ message # NoneV

\* C4 as stated: a non-empty inline list with plaintext and html absent
\* always ends in DanglingInline.
C4_AlwaysDangling ==
    (Terminal /\ n_inlines > 0 /\ plaintext = NoneV /\ html = NoneV
        /\ NamesResolved /\ exc.type \in {"none", "MailerException"} /\ exc.what # "InvalidFrom")
    => exc = MailerException("DanglingInline")

\* The multipart/related node of a tree, if it has one.
RelatedOf(tree) ==
    IF tree.node = "related" THEN <<tree>>
    ELSE IF tree.node = "mixed" /\ tree.children[1].node = "related" THEN <<tree.children[1]>>
    ELSE <<>>

IsBody(tree) ==
    \/ tree.node = "alternative"
    \/ tree.node = "leaf" /\ tree.part[1].maintype = <<"text">> /\ tree.part[1].headers = <<>>

\* C4 amended: such a send never succeeds and never builds a message; it
\* fails with DanglingInline whenever the recipient arguments, the sender
\* and every attachment and inline item resolve, and with the error of the
\* step that failed otherwise. No multipart/related lacks its body.
C4_DanglingInline ==
    /\ (Terminal /\ n_inlines > 0 /\ plaintext = NoneV /\ html = NoneV) =>
          /\ exc.type # "none"
          /\ message = NoneV
          /\ sendmail_calls = <<>>
          /\ (Len(inline_parts) = n_inlines) <=> (exc = MailerException("DanglingInline"))
    /\ (message # NoneV /\ RelatedOf(message[1]) # <<>>) =>
          /\ IsBody(RelatedOf(message[1])[1].children[1])
          /\ Len(RelatedOf(message[1])[1].children) = 1 + Len(inline_parts)

C4_Witness ==
    /\ pc = "raised"
    /\ exc = MailerException("DanglingInline")
    /\ n_attachments > 0 /\ Len(attachment_parts) = n_attachments
    /\ Len(inline_parts) = n_inlines

\* C8 as stated: a send that fails before the transport call fails with
\* MailerException.
C8_OnlyMailerException ==
    (pc = "raised" /\ exc.type \notin {"SMTPException", "AttributeError"})
        => exc.type = "MailerException"

\* The values of the headers named key, in order.
RECURSIVE HeaderValues(_, _)
HeaderValues(hdrs, key) ==
    IF hdrs = <<>> THEN <<>>
    ELSE (IF hdrs[1][1] = key THEN <<hdrs[1][2]>> ELSE <<>>) \o HeaderValues(Tail(hdrs), key)

ComputedKeys == {"To", "Cc", "Bcc", "Reply-To", "From", "Subject"}
HeadersAssembled == msg_headers # <<>>

\* C5 as stated: after header assembly no header key occurs twice, and a
\* caller-supplied header named like a computed one is the only header of
\* that name, with the caller's value.
C5_CallerHeaderOverwrites ==
    HeadersAssembled =>
        /\ \A j, k \in 1..Len(msg_headers) : msg_headers[j][1] = msg_headers[k][1] => j = k
        /\ header # NoneV =>
              \A k \in 1..Len(header[1]) :
                  header[1][k][1] \in ComputedKeys =>
                      HeaderValues(msg_headers, header[1][k][1]) = <<header[1][k][2]>>

\* The entries of a list an address can be extracted from, serialized.
Extractable(e) == MailAddress(e).address # <<>>
Serialized(names) == [k \in 1..Len(names) |-> AddrStr(MailAddress(names[k]))]
Kept(names) == Serialized(SelectSeq(names.v, Extractable))
Skipped(log) == Len(SelectSeq(log, LAMBDA w : w = "skipped"))
Dropped(names) == Len(names.v) - Len(SelectSeq(names.v, Extractable))
Collection(names) == names.k \in {"none", "str", "list"}

\* C6: converting to, cc and bcc never fails on an invalid entry: each entry
\* without an address is dropped (and logged), the others are kept in order;
\* NoRecipients is raised only with all three resolved lists empty, and no
\* other error is raised on account of the recipients.
C6_InvalidEntriesDropped ==
    [][ /\ (pc = "names" /\ Collection(to) /\ Collection(cc) /\ Collection(bcc)) =>
              /\ pc' = "from"
              /\ to'.v = Kept(to) /\ cc'.v = Kept(cc) /\ bcc'.v = Kept(bcc)
              /\ Skipped(warnings') = Dropped(to) + Dropped(cc) + Dropped(bcc)
        /\ (pc = "header" /\ pc' = "raised") =>
              /\ exc' = MailerException("NoRecipients")
              /\ to.v = <<>> /\ cc.v = <<>> /\ bcc.v = <<>>
        /\ (pc = "header" /\ to.v \o cc.v \o bcc.v # <<>>) => pc' = "sendmail"
        /\ exc'.what = "NoRecipients" => pc = "header"
      ]_vars

C6_Witness ==
    /\ pc = "returned"
    /\ Skipped(warnings) > 0
    /\ Len(recipients) > 0

\* ','.join(list), written out by position.
CommaJoined(list) ==
    LET RECURSIVE upto(_)
        upto(k) == IF k = 0 THEN <<>>
                   ELSE IF k = 1 THEN list[1]
                   ELSE upto(k - 1) \o <<",">> \o list[k]
    IN  upto(Len(list))

\* The headers send itself has set: all but the caller's, which come last.
OwnAndComputed ==
    SubSeq(msg_headers, 1, Len(msg_headers) - (IF header = NoneV THEN 0 ELSE Len(header[1])))

\* C7: the transport's recipient list is To ++ Cc ++ Bcc of the resolved
\* addresses, order and duplicates kept; send sets each of To, Cc and Bcc to
\* the comma-join of its list, and not at all when the list is empty.
C7_RecipientsConcatenated ==
    /\ pc \in {"sendmail", "returned"} => recipients = to.v \o cc.v \o bcc.v
    /\ sendmail_calls # <<>> => sendmail_calls[1].to_addrs = to.v \o cc.v \o bcc.v
    /\ HeadersAssembled =>
          /\ HeaderValues(OwnAndComputed, "To") = IF to.v = <<>> THEN <<>> ELSE <<CommaJoined(to.v)>>
          /\ HeaderValues(OwnAndComputed, "Cc") = IF cc.v = <<>> THEN <<>> ELSE <<CommaJoined(cc.v)>>
          /\ HeaderValues(OwnAndComputed, "Bcc") = IF bcc.v = <<>> THEN <<>> ELSE <<CommaJoined(bcc.v)>>

C7_Witness ==
    /\ pc = "returned"
    /\ Len(to.v) = 1 /\ Len(cc.v) = 1 /\ to.v = cc.v
    /\ sendmail_calls[1].to_addrs = to.v \o cc.v
    /\ HeaderValues(msg_headers, "Bcc") = <<>>

\* The parts built for attachment and inline items so far.
ItemParts == attachment_parts \o inline_parts

\* C9 as stated: every part built for an item has a non-empty name, main
\* type and sub type.
C9_PartsWellFormed ==
    \A k \in 1..Len(ItemParts) :
        /\ ItemParts[k].name # <<>>
        /\ ItemParts[k].maintype # <<>>
        /\ ItemParts[k].subtype # <<>>

\* The last iteration built a part for item.
JustBuilt == item # NoneV /\ pc \in {"att_loop", "inl_loop"}
OfAttachment == pc = "att_loop"
NewPart == IF OfAttachment THEN attachment_parts[Len(attachment_parts)]
           ELSE inline_parts[Len(inline_parts)]
TheItem == IF OfAttachment THEN Normalise(item[1]) ELSE item[1]
SourceOf(a) == IF "data" \in a.keys THEN "data"
               ELSE IF "file" \in a.keys THEN "file"
               ELSE "url"
PartType(p) == p.maintype \o <<"/">> \o p.subtype
OctetStream == <<"application", "/", "octet-stream">>

CidName(a) == IF Contains(a.cid, "@") THEN SubSeq(a.cid, 1, IndexOf(a.cid, "@") - 1) ELSE a.cid

\* The type string the item resolves to (optional), by the amended order.
ResolvedType(a, attachment) ==
    LET src == SourceOf(a)
        typed == "type" \in a.keys
    IN  IF src = "url" THEN (IF typed THEN Some(a.type) ELSE Some(urlopen(a.url).ctype))
        ELSE IF attachment
        THEN IF typed THEN Some(a.type)
             ELSE IF src = "file" THEN guess_type(a.file)
             ELSE IF "name" \in a.keys THEN guess_type(a.name)
             ELSE NoneV
        ELSE IF src = "data" THEN (IF typed THEN Some(a.type) ELSE guess_type(CidName(a)))
        ELSE IF typed /\ a.type # <<>> THEN Some(a.type)
        ELSE IF ~typed /\ guess_type(a.file) # NoneV THEN guess_type(a.file)
        ELSE guess_type(CidName(a))

LastIndex == i - 1
Placeholder(p) ==
    LET ext == guess_extension(PartType(p))
    IN  Unnamed(LastIndex) \o (IF ext = NoneV THEN <<".", "dat">> ELSE ext[1])

\* The name the response offers: the filename it declares, else the basename
\* of the URL path.
OfferedName(a) ==
    IF urlopen(a.url).filename # NoneV THEN urlopen(a.url).filename[1]
    ELSE basename(UrlPath(a.url))

\* C11 as stated: the name of every remote item, attachment or inline, is
\* the caller-supplied name if given, otherwise the filename the response
\* declares, otherwise the basename of the URL path, otherwise the
\* placeholder with the guessed extension (a name given as the empty string
\* and a cid with nothing before the '@' left aside).
C11_NameOrder ==
    (JustBuilt /\ SourceOf(TheItem) = "url"
        /\ ("name" \in TheItem.keys => TheItem.name # <<>>)
        /\ (~OfAttachment => CidName(TheItem) # <<>>)) =>
        NewPart.name =
            IF "name" \in TheItem.keys THEN TheItem.name
            ELSE IF OfferedName(TheItem) # <<>> THEN OfferedName(TheItem)
            ELSE Placeholder(NewPart)

\* C11 amended: a remote attachment takes the first of the 'name' key, the
\* filename the response declares and the basename of the URL path that is
\* present, and the placeholder if that one is empty; a remote inline part
\* never reads a 'name' key: it takes the filename the response declares,
\* else the basename of the URL path, and the left part of the cid if that
\* is empty, never a placeholder.
C11_RemoteName ==
    (JustBuilt /\ SourceOf(TheItem) = "url") =>
        IF OfAttachment
        THEN LET first == IF "name" \in TheItem.keys THEN TheItem.name
                          ELSE OfferedName(TheItem)
             IN  NewPart.name = IF first # <<>> THEN first ELSE Placeholder(NewPart)
        ELSE NewPart.name = IF OfferedName(TheItem) # <<>> THEN OfferedName(TheItem)
                            ELSE CidName(TheItem)

\* A remote inline part named after the URL path although the caller gave a
\* name, and a remote attachment with an empty name given the placeholder.
C11_Witness ==
    /\ JustBuilt /\ ~OfAttachment
    /\ SourceOf(TheItem) = "url"
    /\ "name" \in TheItem.keys /\ TheItem.name = <<"x", ".", "png">>
    /\ NewPart.name = <<"c", ".", "js">>

\* ------------------------------------------------------------------ C12
\* The last step of a loop resolved item: it built a part or it raised.
Stepped == item # NoneV /\ pc \in {"att_loop", "inl_loop", "raised"}
StepOfAttachment == IF pc = "raised" THEN Len(attachment_parts) < n_attachments
                    ELSE pc = "att_loop"
StepItem == IF StepOfAttachment THEN Normalise(item[1]) ELSE item[1]
StepBuilt == pc # "raised"
StepPart == IF StepOfAttachment THEN attachment_parts[Len(attachment_parts)]
            ELSE inline_parts[Len(inline_parts)]

\* The step resolved the 'data' key of a mapping (of an inline item: one
\* whose cid passed).
OfData ==
    /\ Stepped
    /\ StepItem.k = "dict" /\ "data" \in StepItem.keys
    /\ (~StepOfAttachment => "cid" \in StepItem.keys /\ Contains(StepItem.cid, "@"))

\* The type the caller gave does not unpack into main and sub type.
TypeUnsplittable(a) == "type" \in a.keys /\ Len(Split(a.type, "/")) > 2

\* C12 as stated: for a 'data' item, attachment or inline, a text payload is
\* accepted and encoded, bytes are used as they are, anything else fails
\* with InvalidContentType (types that do not unpack left aside).
C12_TextAcceptedEverywhere ==
    (OfData /\ ~TypeUnsplittable(StepItem)) =>
        IF StepItem.data.t = "str"
        THEN StepBuilt /\ StepPart.payload = encode(StepItem.data.v)
        ELSE IF StepItem.data.t = "bytes"
        THEN StepBuilt /\ StepPart.payload = StepItem.data.v
        ELSE exc = MailerException("InvalidContentType")

\* C12 amended: an attachment with 'data' takes text, encoded as UTF-8, and
\* bytes as they are, and fails with InvalidContentType for anything else;
\* an inline item with 'data' takes bytes only and fails with
\* InvalidContentType for text as for anything else.  A type that does not
\* unpack raises ValueError: for an attachment before the payload is looked
\* at, for an inline item after the payload passed.
C12_DataPayload ==
    OfData =>
        IF StepOfAttachment
        THEN IF TypeUnsplittable(StepItem) THEN exc = OtherExc("ValueError")
             ELSE IF StepItem.data.t = "str"
             THEN StepBuilt /\ StepPart.payload = encode(StepItem.data.v)
             ELSE IF StepItem.data.t = "bytes"
             THEN StepBuilt /\ StepPart.payload = StepItem.data.v
             ELSE exc = MailerException("InvalidContentType")
        ELSE IF StepItem.data.t # "bytes" THEN exc = MailerException("InvalidContentType")
             ELSE IF TypeUnsplittable(StepItem) THEN exc = OtherExc("ValueError")
             ELSE StepBuilt /\ StepPart.payload = StepItem.data.v

\* An inline item with a text payload was refused.
C12_Witness ==
    /\ OfData /\ ~StepOfAttachment
    /\ StepItem.data.t = "str"
    /\ exc = MailerException("InvalidContentType")

\* ------------------------------------------------------------------ C13
\* The content parts of a message tree, in order.
RECURSIVE PartsOf(_)
PartsOfAll(trees, k) ==
    LET F[n \in 0..Len(trees)] == IF n = 0 THEN <<>> ELSE F[n - 1] \o PartsOf(trees[n])
    IN  F[k]
PartsOf(tree) ==
    IF tree.node = "leaf" THEN tree.part ELSE PartsOfAll(tree.children, Len(tree.children))

ContentIds(p) == HeaderValues(p.headers, "Content-ID")
Dispositions(p) == HeaderValues(p.headers, "Content-Disposition")
IsInline(p) == Dispositions(p) = << <<"inline">> >>

\* The last step resolved an inline mapping whose cid is missing or has no '@'.
BadCid ==
    /\ Stepped /\ ~StepOfAttachment
    /\ StepItem.k = "dict"
    /\ ("cid" \notin StepItem.keys \/ ~Contains(StepItem.cid, "@"))

\* C13: in every message built a part carries a Content-ID header if and
\* only if its disposition is inline; the header of an inline part is
\* '<' + cid + '>' with the cid as supplied, which holds '@'; an inline
\* mapping whose cid is missing or lacks '@' fails with InvalidContentId
\* when it is resolved; attachment parts carry
\* 'attachment; filename="<name>"' and no Content-ID.
C13_ContentIdIffInline ==
    /\ message # NoneV =>
          \A k \in 1..Len(PartsOf(message[1])) :
              LET p == PartsOf(message[1])[k]
              IN  (ContentIds(p) # <<>>) <=> IsInline(p)
    /\ \A k \in 1..Len(inline_parts) :
          /\ IsInline(inline_parts[k])
          /\ Len(ContentIds(inline_parts[k])) = 1
          /\ Contains(ContentIds(inline_parts[k])[1], "@")
    /\ (JustBuilt /\ ~OfAttachment) =>
          /\ ContentIds(NewPart) = << <<"<">> \o TheItem.cid \o <<">">> >>
          /\ Contains(TheItem.cid, "@")
    /\ BadCid => exc = MailerException("InvalidContentId")
    /\ \A k \in 1..Len(attachment_parts) :
          /\ Dispositions(attachment_parts[k]) =
                << <<"attachment; filename=\"">> \o attachment_parts[k].name \o <<"\"">> >>
          /\ ContentIds(attachment_parts[k]) = <<>>

\* A message sent with an inline part under the cid the caller gave, next
\* to a text part without Content-ID.
C13_Witness ==
    /\ pc = "returned" /\ message # NoneV
    /\ Len(PartsOf(message[1])) = 2
    /\ ContentIds(PartsOf(message[1])[1]) = <<>>
    /\ ContentIds(PartsOf(message[1])[2]) = << <<"<", "logo", "@", "x.org", ">">> >>

\* ------------------------------------------------------------------ C14
\* A user name as a sender address: the host is appended if it has no '@'.
AtHost(u) == IF Contains(u, "@") THEN u ELSE u \o <<"@">> \o Host

\* C14 as stated: over any sequence of connect, login, quit and send, a send
\* without from-address takes as sender the user of the most recent login
\* that succeeded and was not followed by quit, with '@' + host appended if
\* the user holds no '@', never a user whose login failed; the From header
\* and the envelope sender are that sender.
C14_SenderIsAuthenticated ==
    /\ [][(pc = "from" /\ from_addr = NoneV /\ pc' = "text") =>
            (authenticated # NoneV /\ from_addr' = Some(AtHost(authenticated[1])))]_vars
    /\ [](HeadersAssembled => HeaderValues(msg_headers, "From") = <<from_addr[1]>>)
    /\ [](\A k \in 1..Len(sendmail_calls) :
            HeaderValues(sendmail_calls[k].msg.headers, "From") = <<sendmail_calls[k].from_addr>>)

\* ------------------------------------------------------------------ C15
\* The urls and the files the parts built so far were read from, in the
\* order of the parts.
UrlsOf(parts) ==
    LET F[n \in 0..Len(parts)] ==
            IF n = 0 THEN <<>>
            ELSE F[n - 1] \o (IF parts[n].payload[1] = "url:" THEN <<Tail(parts[n].payload)>>
                              ELSE <<>>)
    IN  F[Len(parts)]
FilesOf(parts) ==
    LET F[n \in 0..Len(parts)] ==
            IF n = 0 THEN <<>>
            ELSE F[n - 1] \o (IF parts[n].payload[1] = "file:" THEN <<Tail(parts[n].payload)>>
                              ELSE <<>>)
    IN  F[Len(parts)]
IsPrefix(a, b) == Len(a) <= Len(b) /\ SubSeq(b, 1, Len(a)) = a
Running == pc' # "idle"

\* C15: the items are resolved one after another, the attachments in list
\* order and then the inlines in list order; a url item causes at most one
\* request; the first item that fails ends the send, nothing being read or
\* requested after it; a single attachment of an unsupported type fails with
\* InvalidContentType before any request and any transport call.
C15_SequentialResolution ==
    /\ [](pc = "att_loop" => inline_parts = <<>> /\ i = Len(attachment_parts))
    /\ [](pc = "inl_loop" => Len(attachment_parts) = n_attachments /\ i = Len(inline_parts))
    /\ [](/\ reads = FilesOf(ItemParts)
          /\ IsPrefix(UrlsOf(ItemParts), fetches)
          /\ Len(fetches) <= Len(UrlsOf(ItemParts)) + (IF Stepped /\ pc = "raised" THEN 1 ELSE 0)
          /\ (sendmail_calls # <<>> => Len(ItemParts) = n_attachments + n_inlines))
    /\ [][Running =>
            /\ IsPrefix(attachment_parts, attachment_parts')
            /\ IsPrefix(inline_parts, inline_parts')
            /\ Len(ItemParts') <= Len(ItemParts) + 1
            /\ (fetches' # fetches \/ reads' # reads \/ ItemParts' # ItemParts) =>
                  /\ pc \in {"att_loop", "inl_loop"}
                  /\ fetches' = fetches \/ reads' = reads
                  /\ fetches' # fetches => fetches' = Append(fetches, Normalise(item'[1]).url)
                  /\ reads' # reads => reads' = Append(reads, Normalise(item'[1]).file)]_vars
    /\ [][pc = "raised" => ~Running]_vars
    /\ []((Stepped /\ StepOfAttachment /\ item[1] = ItemInt) =>
            /\ exc = MailerException("InvalidContentType")
            /\ fetches = UrlsOf(ItemParts)
            /\ sendmail_calls = <<>>
            /\ (n_attachments = 1 => fetches = <<>> /\ reads = <<>>))

\* The second url attachment failed after the first was fetched: two
\* requests, one part, no transport call.
C15_Witness ==
    /\ pc = "raised" /\ Stepped /\ StepOfAttachment
    /\ fetches = <<U_JS, U_404>>
    /\ Len(attachment_parts) = 1
    /\ n_inlines > 0
    /\ sendmail_calls = <<>>

\* ------------------------------------------------------------------ C16
\* The variant the keys of a mapping select: 'data' over 'file' over 'url'.
Variant(a) ==
    IF "data" \in a.keys THEN "data"
    ELSE IF "file" \in a.keys THEN "file"
    ELSE IF "url" \in a.keys THEN "url"
    ELSE "none"

\* The payload the variant of a gives, text being encoded for attachments.
VariantPayload(a) ==
    IF Variant(a) = "data" THEN (IF a.data.t = "str" THEN encode(a.data.v) ELSE a.data.v)
    ELSE IF Variant(a) = "file" THEN FileContent(a.file)
    ELSE UrlContent(a.url)

\* This step is an iteration over a mapping, or over a bare str or bytes
\* attachment.
Iteration == pc \in {"att_loop", "inl_loop"} /\ item' # NoneV
Iterated == IF pc = "att_loop" THEN Normalise(item'[1]) ELSE item'[1]
BuiltNow == pc' # "raised"
PartNow == IF pc = "att_loop" THEN attachment_parts'[Len(attachment_parts')]
           ELSE inline_parts'[Len(inline_parts')]

\* C16: of a mapping exactly one variant is resolved, chosen by the keys
\* with 'data' over 'file' over 'url': the part is built from that source
\* alone, the other sources being neither read nor requested; a mapping
\* with none of the three keys fails with MailerException; a bare str
\* attachment is resolved as {'file': s}, bare bytes as {'data': b}.
C16_SourcePrecedence ==
    [][(Iteration /\ Iterated.k = "dict") =>
          /\ fetches' # fetches =>
                Variant(Iterated) = "url" /\ fetches' = Append(fetches, Iterated.url)
          /\ reads' # reads =>
                Variant(Iterated) = "file" /\ reads' = Append(reads, Iterated.file)
          /\ BuiltNow =>
                /\ Variant(Iterated) # "none"
                /\ PartNow.payload = VariantPayload(Iterated)
                /\ Variant(Iterated) = "file" <=> reads' # reads
                /\ Variant(Iterated) = "url" <=> fetches' # fetches
          /\ Variant(Iterated) = "none" => ~BuiltNow /\ exc'.type = "MailerException"
          /\ (pc = "att_loop" /\ item'[1].k = "str") =>
                IF isfile(item'[1].file)
                THEN /\ BuiltNow /\ PartNow.payload = FileContent(item'[1].file)
                     /\ reads' = Append(reads, item'[1].file)
                ELSE exc' = MailerException("FileNotFound")
          /\ (pc = "att_loop" /\ item'[1].k = "bytes") =>
                BuiltNow /\ PartNow.payload = item'[1].data.v /\ reads' = reads]_vars

\* A mapping with all three keys was built from its data: nothing was read
\* from disk and nothing requested.
C16_Witness ==
    /\ JustBuilt /\ TheItem.k = "dict"
    /\ TheItem.keys = {"data", "file", "url"}
    /\ isfile(TheItem.file)
    /\ NewPart.payload = TheItem.data.v
    /\ fetches = <<>> /\ reads = <<>>

====
